---- MODULE Spec2Model ----
(***************************************************************************)
(* students-api: the five HTTP handlers of internal/http/handlers/student  *)
(* over the SQLite storage of internal/storage/sqlite.                     *)
(*                                                                         *)
(* The store is the students table (a set of rows) together with the       *)
(* AUTOINCREMENT counter SQLite keeps for it in sqlite_sequence.  Every    *)
(* handler is one action; the statement of the storage method a handler    *)
(* calls may fail (the fault input), which takes the method's error        *)
(* branch.  Spec is the service over a store whose statements all          *)
(* execute; SpecFault is the service over a store where any one statement  *)
(* of a request may fail.  In both, requests are served one after the      *)
(* other.  SpecConc is the service with two requests in flight, their      *)
(* statements interleaved.  SpecMain is the process from its start to its  *)
(* exit: func main, the goroutine of ListenAndServe and the signals.       *)
(***************************************************************************)
EXTENDS Integers, Sequences, FiniteSets, TLC

VARIABLES
    rows,     \* the students table: a set of rows [id, name, email, age]
    seq,      \* sqlite_sequence.seq of the table: the largest rowid ever assigned
    last,     \* the last request served and the response written for it
    before,   \* the students table as it was when the last request arrived
    prev,     \* for a Get: what the request just before it wrote, if that was a successful Create or Update
    issued,   \* the ids answered by the successful Creates, in order
    deleted,  \* the ids of the rows that a successful Delete removed
    reqs,     \* the request each goroutine of the server is serving, and how far it got
    main      \* the process: where func main is, the listener, the connections

vars == <<rows, seq, last, before, prev, issued, deleted, reqs, main>>

(***************************************************************************)
(* Bounds and input domains                                                *)
(***************************************************************************)

\* At most MaxSeq rows are ever inserted.
MaxSeq == 2

\* Decimal strings of the path ids, by value.
Decimal == <<"1", "2", "3", "4", "5", "6", "7", "8", "9">>

\* The {id} path segments tried: every id that can exist, one that never
\* exists, and one that is no integer.
PathIds == {Decimal[i] : i \in 1..(MaxSeq + 1)} \cup {"abc"}

\* The (name, email, age) triples with every field set.  The second email
\* is not an address, and the third age is negative.
ValidInputs ==
    { [name |-> "Rakesh",       email |-> "rakesh@test.com", age |-> 35],
      [name |-> "Rakesh Kumar", email |-> "not-an-email",    age |-> 36],
      [name |-> "Priya",        email |-> "new@test.com",    age |-> -1] }

\* The same, with any of the fields at its zero value.
ZeroedInputs ==
    { [name |-> n, email |-> e, age |-> a] :
        n \in {"", "Rakesh"}, e \in {"", "rakesh@test.com"}, a \in {0, 35} }

JSONKeys == {"id", "name", "email", "age"}

\* A request body: no bytes at all, bytes that are no JSON document of the
\* Student shape, or a JSON object holding the keys in `has`.  A key that
\* is not in `has` carries no value (it is written here as the zero value).
EmptyBody     == [kind |-> "empty",     has |-> {}, id |-> 0, name |-> "", email |-> "", age |-> 0]
MalformedBody == [kind |-> "malformed", has |-> {}, id |-> 0, name |-> "", email |-> "", age |-> 0]

Object(has, id, in) ==
    [kind  |-> "object", has |-> has,
     id    |-> IF "id"    \in has THEN id       ELSE 0,
     name  |-> IF "name"  \in has THEN in.name  ELSE "",
     email |-> IF "email" \in has THEN in.email ELSE "",
     age   |-> IF "age"   \in has THEN in.age   ELSE 0]

Bodies ==
    {EmptyBody, MalformedBody}
    \cup { Object({"name", "email", "age"}, 0, in) : in \in ValidInputs \cup ZeroedInputs }
    \cup { Object(JSONKeys, 2, [name |-> "Priya", email |-> "new@test.com", age |-> -1]) }
    \cup { Object(has, 0, [name |-> "Rakesh", email |-> "rakesh@test.com", age |-> 35]) :
             has \in {{"name", "email"}, {}} }

\* The text of the error the driver reports for a failed statement.
DriverErr == "disk I/O error"

(***************************************************************************)
(* types.Student and its conversions                                       *)
(***************************************************************************)

\* var student types.Student
ZeroStudent == [ID |-> 0, Name |-> "", Email |-> "", Age |-> 0]

\* json.NewDecoder(r.Body).Decode(&student): the keys of the object are
\* matched to the fields by their json tags; a field whose key is absent
\* keeps its zero value.
Decode(body) ==
    IF body.kind = "empty" THEN
        [err |-> "EOF", student |-> ZeroStudent]
    ELSE IF body.kind = "malformed" THEN
        [err |-> "invalid character 'x' looking for beginning of value",
         student |-> ZeroStudent]
    ELSE
        [err |-> "",
         student |->
            [ID    |-> IF "id"    \in body.has THEN body.id    ELSE ZeroStudent.ID,
             Name  |-> IF "name"  \in body.has THEN body.name  ELSE ZeroStudent.Name,
             Email |-> IF "email" \in body.has THEN body.email ELSE ZeroStudent.Email,
             Age   |-> IF "age"   \in body.has THEN body.age   ELSE ZeroStudent.Age]]

\* json encoding of a types.Student, by its json tags.
EncodeStudent(student) ==
    [id |-> student.ID, name |-> student.Name, email |-> student.Email, age |-> student.Age]

\* As Scan, with the destinations of name and email exchanged.
ScanNameEmailSwapped(row) ==
    [ID |-> row.id, Name |-> row.email, Email |-> row.name, Age |-> row.age]

\* Scan(&student.ID, &student.Name, &student.Email, &student.Age) of a row
\* selected as id, name, email, age.
Scan(row) ==
    [ID |-> row.id, Name |-> row.name, Email |-> row.email, Age |-> row.age]

\* As Validate, with no validate tag on Age.
ValidateAgeUntagged(student) ==
    (IF student.Name  = "" THEN <<"Name">>  ELSE <<>>)
    \o (IF student.Email = "" THEN <<"Email">> ELSE <<>>)

\* As Validate, with no validate tag on Name.
ValidateNameUntagged(student) ==
    (IF student.Email = "" THEN <<"Email">> ELSE <<>>)
    \o (IF student.Age   = 0  THEN <<"Age">>   ELSE <<>>)

\* validator.New().Struct(student): the fields tagged validate:"required"
\* that hold their zero value, in the order of the struct's fields.
Validate(student) ==
    (IF student.Name  = "" THEN <<"Name">>  ELSE <<>>)
    \o (IF student.Email = "" THEN <<"Email">> ELSE <<>>)
    \o (IF student.Age   = 0  THEN <<"Age">>   ELSE <<>>)

(***************************************************************************)
(* internal/utils/response                                                 *)
(***************************************************************************)

StatusError == "error"

\* strings.Join(elems, sep)
RECURSIVE Join(_, _)
Join(elems, sep) ==
    IF elems = <<>> THEN ""
    ELSE IF Len(elems) = 1 THEN elems[1]
    ELSE elems[1] \o sep \o Join(Tail(elems), sep)

WriteJSON(status, data) == [code |-> status, data |-> data]

\* As GeneralError, with the status constant StatusOK in place of StatusError.
GeneralErrorStatusOK(err) == [status |-> "ok", error |-> err]

GeneralError(err) == [status |-> StatusError, error |-> err]

\* As ValidationError, returning at the first failing field.
ValidationErrorFirstOnly(errs) ==
    [status |-> StatusError,
     error  |-> "field " \o errs[1] \o " is required"]

\* Every failing field of this model fails the "required" tag.
ValidationError(errs) ==
    [status |-> StatusError,
     error  |-> Join([i \in 1..Len(errs) |-> "field " \o errs[i] \o " is required"], ", ")]

\* As ParseInt, with the error dropped: the zero result is used as the id.
ParseIntErrDropped(s) ==
    IF \E i \in DOMAIN Decimal : Decimal[i] = s
    THEN [ok |-> TRUE, val |-> CHOOSE i \in DOMAIN Decimal : Decimal[i] = s]
    ELSE [ok |-> TRUE, val |-> 0]

\* strconv.ParseInt(id, 10, 64)
ParseInt(s) ==
    IF \E i \in DOMAIN Decimal : Decimal[i] = s
    THEN [ok |-> TRUE,  val |-> CHOOSE i \in DOMAIN Decimal : Decimal[i] = s]
    ELSE [ok |-> FALSE, val |-> 0]

\* %d of an id
FormatInt(id) == IF id \in DOMAIN Decimal THEN Decimal[id] ELSE "?"

(***************************************************************************)
(* internal/storage/sqlite: the statements                                 *)
(***************************************************************************)

Max(a, b) == IF a >= b THEN a ELSE b

MaxRowid(table) ==
    IF table = {} THEN 0
    ELSE CHOOSE m \in {r.id : r \in table} : \A r \in table : r.id <= m

\* As NextRowid for a table declared without AUTOINCREMENT: one more than
\* the largest rowid the table holds now.
NextRowidOfRowsHeld(db) == MaxRowid(db.rows) + 1

\* As NextRowid, but taking the smallest rowid no row holds.
NextRowidLowestFree(db) ==
    CHOOSE i \in 1..(Cardinality(db.rows) + 1) :
        /\ \A r \in db.rows : r.id # i
        /\ \A j \in 1..(i - 1) : \E r \in db.rows : r.id = j

\* id INTEGER PRIMARY KEY AUTOINCREMENT: the rowid given to an inserted row
\* is one more than the largest rowid the table has ever held.
NextRowid(db) == Max(db.seq, MaxRowid(db.rows)) + 1

\* INSERT INTO students (name, email, age) VALUES (?, ?, ?)
InsertStmt(db, name, email, age) ==
    LET id == NextRowid(db) IN
    [rows |-> db.rows \cup {[id |-> id, name |-> name, email |-> email, age |-> age]},
     seq  |-> id]

\* SELECT id, name, email, age FROM students WHERE id = ? LIMIT 1
SelectByID(db, id) ==
    LET found == {r \in db.rows : r.id = id} IN
    IF found = {} THEN {} ELSE {CHOOSE r \in found : TRUE}

\* SELECT id, name, email, age FROM students (a scan of the table, by rowid)
RECURSIVE SelectAll(_)
SelectAll(table) ==
    IF table = {} THEN <<>>
    ELSE LET first == CHOOSE r \in table : \A o \in table : r.id <= o.id
         IN  <<first>> \o SelectAll(table \ {first})

\* As UpdateStmt, with age left out of the SET list.
UpdateStmtAgeNotSet(db, name, email, age, id) ==
    [db EXCEPT !.rows =
        { IF r.id = id
          THEN [id |-> r.id, name |-> name, email |-> email, age |-> r.age]
          ELSE r : r \in db.rows }]

\* As UpdateStmt, written as an upsert: INSERT OR REPLACE INTO students.
UpdateStmtUpsert(db, name, email, age, id) ==
    [db EXCEPT !.rows =
        {r \in db.rows : r.id # id}
        \cup {[id |-> id, name |-> name, email |-> email, age |-> age]}]

\* UPDATE students SET name = ?, email = ?, age = ? WHERE id = ?
UpdateStmt(db, name, email, age, id) ==
    [db EXCEPT !.rows =
        { IF r.id = id
          THEN [id |-> r.id, name |-> name, email |-> email, age |-> age]
          ELSE r : r \in db.rows }]

\* As DeleteStmt, with no WHERE clause.
DeleteStmtNoWhere(db, id) ==
    [db EXCEPT !.rows = {}]

\* DELETE FROM students WHERE id = ?
DeleteStmt(db, id) ==
    [db EXCEPT !.rows = {r \in db.rows : r.id # id}]

(***************************************************************************)
(* internal/storage/sqlite: the methods of storage.Storage                 *)
(*                                                                         *)
(* `fault` names the statement of the method that fails, if any.  A        *)
(* method returns the store it leaves and its results; err = "" is nil.    *)
(* result.LastInsertId() of the sqlite3 driver returns no error.           *)
(***************************************************************************)

CreateStudent(db, name, email, age, fault) ==
    IF fault = "prepare" THEN
        [db |-> db, id |-> 0, err |-> "CreateStudent: prepare: " \o DriverErr]
    ELSE IF fault = "exec" THEN
        [db |-> db, id |-> 0, err |-> "CreateStudent: exec: " \o DriverErr]
    ELSE
        [db |-> InsertStmt(db, name, email, age), id |-> NextRowid(db), err |-> ""]

\* As GetStudentByID, with sql.ErrNoRows not taken for an error.
GetStudentByIDNoRowsOk(db, id, fault) ==
    IF fault = "prepare" THEN
        [student |-> ZeroStudent, err |-> "GetStudentByID: prepare: " \o DriverErr]
    ELSE IF fault = "scan" THEN
        [student |-> ZeroStudent, err |-> "GetStudentByID: scan: " \o DriverErr]
    ELSE IF SelectByID(db, id) = {} THEN
        [student |-> ZeroStudent, err |-> ""]
    ELSE
        [student |-> Scan(CHOOSE r \in SelectByID(db, id) : TRUE), err |-> ""]

GetStudentByID(db, id, fault) ==
    IF fault = "prepare" THEN
        [student |-> ZeroStudent, err |-> "GetStudentByID: prepare: " \o DriverErr]
    ELSE IF fault = "scan" THEN
        [student |-> ZeroStudent, err |-> "GetStudentByID: scan: " \o DriverErr]
    ELSE IF SelectByID(db, id) = {} THEN
        [student |-> ZeroStudent, err |-> "no student found with id: " \o FormatInt(id)]
    ELSE
        [student |-> Scan(CHOOSE r \in SelectByID(db, id) : TRUE), err |-> ""]

\* A Go slice: nil, or a (possibly empty) run of items.
NilSlice == [isNil |-> TRUE, items |-> <<>>]

\* As GetStudents, with the slice declared (var students []types.Student)
\* and not made: it stays nil until a row is appended.
GetStudentsSliceNotMade(db, fault) ==
    IF fault = "prepare" THEN
        [students |-> NilSlice, err |-> "GetStudents: prepare: " \o DriverErr]
    ELSE IF fault = "query" THEN
        [students |-> NilSlice, err |-> "GetStudents: query: " \o DriverErr]
    ELSE IF fault = "scan" /\ db.rows # {} THEN
        [students |-> NilSlice, err |-> "GetStudents: scan row: " \o DriverErr]
    ELSE IF fault = "rows" THEN
        [students |-> NilSlice, err |-> "GetStudents: rows iteration: " \o DriverErr]
    ELSE
        LET all == SelectAll(db.rows) IN
        [students |-> [isNil |-> all = <<>>, items |-> [i \in 1..Len(all) |-> Scan(all[i])]],
         err |-> ""]

\* As GetStudents, with rows.Next() called once and not in a loop.
GetStudentsFirstRowOnly(db, fault) ==
    IF fault = "prepare" THEN
        [students |-> NilSlice, err |-> "GetStudents: prepare: " \o DriverErr]
    ELSE IF fault = "query" THEN
        [students |-> NilSlice, err |-> "GetStudents: query: " \o DriverErr]
    ELSE IF fault = "scan" /\ db.rows # {} THEN
        [students |-> NilSlice, err |-> "GetStudents: scan row: " \o DriverErr]
    ELSE IF fault = "rows" THEN
        [students |-> NilSlice, err |-> "GetStudents: rows iteration: " \o DriverErr]
    ELSE
        LET all == SelectAll(db.rows) IN
        [students |-> [isNil |-> FALSE,
                       items |-> IF all = <<>> THEN <<>> ELSE <<Scan(all[1])>>],
         err |-> ""]

GetStudents(db, fault) ==
    IF fault = "prepare" THEN
        [students |-> NilSlice, err |-> "GetStudents: prepare: " \o DriverErr]
    ELSE IF fault = "query" THEN
        [students |-> NilSlice, err |-> "GetStudents: query: " \o DriverErr]
    ELSE IF fault = "scan" /\ db.rows # {} THEN
        [students |-> NilSlice, err |-> "GetStudents: scan row: " \o DriverErr]
    ELSE IF fault = "rows" THEN
        [students |-> NilSlice, err |-> "GetStudents: rows iteration: " \o DriverErr]
    ELSE
        LET all == SelectAll(db.rows) IN
        [students |-> [isNil |-> FALSE, items |-> [i \in 1..Len(all) |-> Scan(all[i])]],
         err |-> ""]

\* The statement of the re-read that `fault` names.
Reread(fault) ==
    IF fault = "reread.prepare" THEN "prepare"
    ELSE IF fault = "reread.scan" THEN "scan"
    ELSE "none"

\* As UpdateReturn, returning the student that was passed in, under the id.
UpdateReturnEchoesInput(db, id, student, fault) ==
    [student |-> [ID |-> id, Name |-> student.Name, Email |-> student.Email,
                  Age |-> student.Age],
     err |-> ""]

\* return s.GetStudentByID(id): what UpdateStudentByID returns once its
\* UPDATE executed, from the store as it is then.
UpdateReturn(db, id, student, fault) ==
    GetStudentByID(db, id, Reread(fault))

\* As UpdateStudentByID, with the ID of the student passed in taken for the
\* id of the WHERE clause and of the re-read.
UpdateStudentByIDIdOfStudent(db, id, student, fault) ==
    IF fault = "prepare" THEN
        [db |-> db, student |-> ZeroStudent, err |-> "UpdateStudentByID: prepare: " \o DriverErr]
    ELSE IF fault = "exec" THEN
        [db |-> db, student |-> ZeroStudent, err |-> "UpdateStudentByID: exec: " \o DriverErr]
    ELSE
        LET written == UpdateStmt(db, student.Name, student.Email, student.Age, student.ID)
            read    == UpdateReturn(written, student.ID, student, fault)
        IN  [db |-> written, student |-> read.student, err |-> read.err]

UpdateStudentByID(db, id, student, fault) ==
    IF fault = "prepare" THEN
        [db |-> db, student |-> ZeroStudent, err |-> "UpdateStudentByID: prepare: " \o DriverErr]
    ELSE IF fault = "exec" THEN
        [db |-> db, student |-> ZeroStudent, err |-> "UpdateStudentByID: exec: " \o DriverErr]
    ELSE
        LET written == UpdateStmt(db, student.Name, student.Email, student.Age, id)
            read    == UpdateReturn(written, id, student, fault)
        IN  [db |-> written, student |-> read.student, err |-> read.err]

\* As DeleteStudentByID, with an error when the statement affected no row.
DeleteStudentByIDMustAffect(db, id, fault) ==
    IF fault = "prepare" THEN
        [db |-> db, err |-> "DeleteStudentByID: prepare: " \o DriverErr]
    ELSE IF fault = "exec" THEN
        [db |-> db, err |-> "DeleteStudentByID: exec: " \o DriverErr]
    ELSE IF SelectByID(db, id) = {} THEN
        [db |-> db, err |-> "no student found with id: " \o FormatInt(id)]
    ELSE
        [db |-> DeleteStmt(db, id), err |-> ""]

DeleteStudentByID(db, id, fault) ==
    IF fault = "prepare" THEN
        [db |-> db, err |-> "DeleteStudentByID: prepare: " \o DriverErr]
    ELSE IF fault = "exec" THEN
        [db |-> db, err |-> "DeleteStudentByID: exec: " \o DriverErr]
    ELSE
        [db |-> DeleteStmt(db, id), err |-> ""]

(***************************************************************************)
(* internal/http/handlers/student: the handlers                            *)
(*                                                                         *)
(* A handler takes the store, the request (path id, body) and the fault    *)
(* of its storage call; it returns the store it leaves, the response it    *)
(* writes and the storage methods it called.                               *)
(***************************************************************************)

Answer(db, status, data, calls) ==
    [db |-> db, resp |-> WriteJSON(status, data), calls |-> calls]

\* POST /api/students
New(db, body, fault) ==
    LET dec == Decode(body) IN
    IF dec.err = "EOF" THEN
        Answer(db, 400, GeneralError("request body is empty"), <<>>)
    ELSE IF dec.err # "" THEN
        Answer(db, 400, GeneralError(dec.err), <<>>)
    ELSE IF Validate(dec.student) # <<>> THEN
        Answer(db, 400, ValidationError(Validate(dec.student)), <<>>)
    ELSE
        LET c == CreateStudent(db, dec.student.Name, dec.student.Email,
                               dec.student.Age, fault)
        IN  IF c.err # "" THEN
                Answer(c.db, 500, GeneralError(c.err), <<"CreateStudent">>)
            ELSE
                Answer(c.db, 201, [id |-> c.id], <<"CreateStudent">>)

\* GET /api/students/{id}
GetByID(db, path, fault) ==
    LET intID == ParseInt(path) IN
    IF ~intID.ok THEN
        Answer(db, 400, GeneralError("invalid id: must be an integer"), <<>>)
    ELSE
        LET g == GetStudentByID(db, intID.val, fault) IN
        IF g.err # "" THEN
            Answer(db, 500, GeneralError(g.err), <<"GetStudentByID">>)
        ELSE
            Answer(db, 200, EncodeStudent(g.student), <<"GetStudentByID">>)

\* json encoding of a slice of students: null for the nil slice, else an array.
EncodeStudents(students) ==
    IF students.isNil THEN [null |-> TRUE]
    ELSE [array |-> [i \in 1..Len(students.items) |-> EncodeStudent(students.items[i])]]

\* As GetList, calling the storage a second time when the first call fails.
GetListRetries(db, fault) ==
    LET l == GetStudents(db, fault) IN
    IF l.err # "" THEN
        LET again == GetStudents(db, "none") IN
        Answer(db, 200, EncodeStudents(again.students), <<"GetStudents", "GetStudents">>)
    ELSE
        Answer(db, 200, EncodeStudents(l.students), <<"GetStudents">>)

\* GET /api/students
GetList(db, fault) ==
    LET l == GetStudents(db, fault) IN
    IF l.err # "" THEN
        Answer(db, 500, GeneralError(l.err), <<"GetStudents">>)
    ELSE
        Answer(db, 200, EncodeStudents(l.students), <<"GetStudents">>)

\* PUT /api/students/{id}
\* As Update, with the body decoded and validated before the id is parsed.
UpdateDecodesFirst(db, path, body, fault) ==
    LET intID == ParseInt(path)
        dec   == Decode(body)
    IN
    IF dec.err = "EOF" THEN
        Answer(db, 400, GeneralError("request body is empty"), <<>>)
    ELSE IF dec.err # "" THEN
        Answer(db, 400, GeneralError(dec.err), <<>>)
    ELSE IF Validate(dec.student) # <<>> THEN
        Answer(db, 400, ValidationError(Validate(dec.student)), <<>>)
    ELSE IF ~intID.ok THEN
        Answer(db, 400, GeneralError("invalid id: must be an integer"), <<>>)
    ELSE
        LET u == UpdateStudentByID(db, intID.val, dec.student, fault) IN
        IF u.err # "" THEN
            Answer(u.db, 500, GeneralError(u.err), <<"UpdateStudentByID">>)
        ELSE
            Answer(u.db, 200, EncodeStudent(u.student), <<"UpdateStudentByID">>)

Update(db, path, body, fault) ==
    LET intID == ParseInt(path)
        dec   == Decode(body)
    IN
    IF ~intID.ok THEN
        Answer(db, 400, GeneralError("invalid id: must be an integer"), <<>>)
    ELSE IF dec.err = "EOF" THEN
        Answer(db, 400, GeneralError("request body is empty"), <<>>)
    ELSE IF dec.err # "" THEN
        Answer(db, 400, GeneralError(dec.err), <<>>)
    ELSE IF Validate(dec.student) # <<>> THEN
        Answer(db, 400, ValidationError(Validate(dec.student)), <<>>)
    ELSE
        LET u == UpdateStudentByID(db, intID.val, dec.student, fault) IN
        IF u.err # "" THEN
            Answer(u.db, 500, GeneralError(u.err), <<"UpdateStudentByID">>)
        ELSE
            Answer(u.db, 200, EncodeStudent(u.student), <<"UpdateStudentByID">>)

\* DELETE /api/students/{id}
Delete(db, path, fault) ==
    LET intID == ParseInt(path) IN
    IF ~intID.ok THEN
        Answer(db, 400, GeneralError("invalid id: must be an integer"), <<>>)
    ELSE
        LET d == DeleteStudentByID(db, intID.val, fault) IN
        IF d.err # "" THEN
            Answer(d.db, 500, GeneralError(d.err), <<"DeleteStudentByID">>)
        ELSE
            Answer(d.db, 200, [status |-> "deleted"], <<"DeleteStudentByID">>)

(***************************************************************************)
(* The service: one action per route                                       *)
(***************************************************************************)

NoPrev == [op |-> "none", id |-> 0, name |-> "", email |-> "", age |-> 0]

\* The goroutines that serve requests at the same time.
Goroutines == {"g1", "g2"}

\* A goroutine that serves no request.
Idle == [op |-> "none", id |-> 0, in |-> [name |-> "", email |-> "", age |-> 0],
         pc |-> "idle", resp |-> [code |-> 0, data |-> [status |-> "none"]],
         seen |-> {}, added |-> {}, lost |-> {}]

\* The patterns func main registers on the router.
Routes == {"POST /api/students", "GET /api/students", "GET /api/students/{id}",
           "PUT /api/students/{id}", "DELETE /api/students/{id}"}

\* The connections the listener may hold at the same time.
Conns == {"c1", "c2"}

\* The process as the operating system starts it, before func main ran.
Started ==
    [pc |-> "MustLoad", end |-> "", status |-> -1, storage |-> "nil", routes |-> {},
     listener |-> "none", notified |-> FALSE, done |-> <<>>, elapsed |-> 0,
     inflight |-> [c \in Conns |-> ""], failed |-> "", late |-> FALSE,
     waited |-> FALSE]

\* The process while func main waits at <-done and the listener accepts.
Serving ==
    [Started EXCEPT !.pc = "<-done", !.storage = "ready", !.routes = Routes,
                    !.listener = "listening", !.notified = TRUE]

\* The store after sqlite.New created the table, before any request.
Init ==
    /\ rows = {}
    /\ seq = 0
    /\ last = [op |-> "none", path |-> "", body |-> EmptyBody,
               resp |-> [code |-> 0, data |-> [status |-> "none"]], calls |-> <<>>]
    /\ before = {}
    /\ prev = NoPrev
    /\ issued = <<>>
    /\ deleted = {}
    /\ reqs = [g \in Goroutines |-> Idle]
    /\ main = Serving

\* What the last request wrote, if it was a successful Create or Update:
\* the id it wrote under and the fields its body gave.
Written ==
    IF last.op = "New" /\ last.resp.code = 201 THEN
        [op |-> "New", id |-> last.resp.data.id,
         name |-> last.body.name, email |-> last.body.email, age |-> last.body.age]
    ELSE IF last.op = "Update" /\ last.resp.code = 200 THEN
        [op |-> "Update", id |-> ParseInt(last.path).val,
         name |-> last.body.name, email |-> last.body.email, age |-> last.body.age]
    ELSE NoPrev

\* The handler's outcome `out` for the request (op, path, body) takes effect.
Serve(op, path, body, out) ==
    /\ out.db.seq <= MaxSeq
    /\ rows' = out.db.rows
    /\ seq' = out.db.seq
    /\ last' = [op |-> op, path |-> path, body |-> body,
                resp |-> out.resp, calls |-> out.calls]
    /\ before' = rows
    /\ prev' = IF op = "GetByID" THEN Written ELSE NoPrev
    /\ issued' = IF op = "New" /\ out.resp.code = 201
                 THEN Append(issued, out.resp.data.id) ELSE issued
    /\ deleted' = IF /\ op = "Delete"
                     /\ out.resp.code = 200
                     /\ \E r \in rows : r.id = ParseInt(path).val
                  THEN deleted \cup {ParseInt(path).val} ELSE deleted
    /\ UNCHANGED <<reqs, main>>

DB == [rows |-> rows, seq |-> seq]

\* The routes.  Of the statements of the route's storage method, any one in
\* `faults` may fail ("none": all execute); a request that reaches no
\* storage call has one outcome whatever the store would have done.

PostStudents(body, faults) ==
    \E out \in {New(DB, body, f) : f \in faults} :
        Serve("New", "", body, out)

GetStudent(path, faults) ==
    \E out \in {GetByID(DB, path, f) : f \in faults} :
        Serve("GetByID", path, EmptyBody, out)

ListStudents(faults) ==
    \E out \in {GetList(DB, f) : f \in faults} :
        Serve("GetList", "", EmptyBody, out)

PutStudent(path, body, faults) ==
    \E out \in {Update(DB, path, body, f) : f \in faults} :
        Serve("Update", path, body, out)

DeleteStudent(path, faults) ==
    \E out \in {Delete(DB, path, f) : f \in faults} :
        Serve("Delete", path, EmptyBody, out)

\* The statements of each storage method that can fail.
CreateFaults == {"prepare", "exec"}
GetFaults    == {"prepare", "scan"}
ListFaults   == {"prepare", "query", "scan", "rows"}
UpdateFaults == {"prepare", "exec", "reread.prepare", "reread.scan"}
DeleteFaults == {"prepare", "exec"}

\* Every statement executes.
Next ==
    \/ \E body \in Bodies : PostStudents(body, {"none"})
    \/ \E path \in PathIds : GetStudent(path, {"none"})
    \/ ListStudents({"none"})
    \/ \E path \in PathIds, body \in Bodies : PutStudent(path, body, {"none"})
    \/ \E path \in PathIds : DeleteStudent(path, {"none"})

\* Any one statement of a request may fail.
NextFault ==
    \/ \E body \in Bodies : PostStudents(body, {"none"} \cup CreateFaults)
    \/ \E path \in PathIds : GetStudent(path, {"none"} \cup GetFaults)
    \/ ListStudents({"none"} \cup ListFaults)
    \/ \E path \in PathIds, body \in Bodies : PutStudent(path, body, {"none"} \cup UpdateFaults)
    \/ \E path \in PathIds : DeleteStudent(path, {"none"} \cup DeleteFaults)

Spec == Init /\ [][Next]_vars

SpecFault == Init /\ [][NextFault]_vars

(***************************************************************************)
(* The service with requests in flight at the same time                    *)
(*                                                                         *)
(* The server runs each request in a goroutine of its own over the one     *)
(* *sql.DB.  A request with an integer id and all fields set is taken up   *)
(* (Begin), then its storage method runs statement by statement; SQLite    *)
(* executes each statement as a whole.  `seen` is the rows the table held  *)
(* under the request's id when the re-read of an Update ran; `added` and   *)
(* `lost` are the rows an INSERT put into and took out of the table.       *)
(***************************************************************************)

Running(g, op, id, in, pc) ==
    reqs' = [reqs EXCEPT ![g] = [Idle EXCEPT !.op = op, !.id = id, !.in = in, !.pc = pc]]

Free(g) == reqs[g].pc \in {"idle", "done"}

BeginNew(g, in) ==
    /\ Free(g)
    /\ Running(g, "New", 0, in, "insert")
    /\ UNCHANGED <<rows, seq, last, before, prev, issued, deleted, main>>

BeginUpdate(g, id, in) ==
    /\ Free(g)
    /\ Running(g, "Update", id, in, "update")
    /\ UNCHANGED <<rows, seq, last, before, prev, issued, deleted, main>>

BeginDelete(g, id) ==
    /\ Free(g)
    /\ Running(g, "Delete", id, [name |-> "", email |-> "", age |-> 0], "delete")
    /\ UNCHANGED <<rows, seq, last, before, prev, issued, deleted, main>>

\* CreateStudent: stmt.Exec of the INSERT, which the driver may refuse
\* (the database is locked by the other request), and the 201 or 500 of New.
ExecInsert(g) ==
    /\ reqs[g].pc = "insert"
    /\ \E c \in {CreateStudent(DB, reqs[g].in.name, reqs[g].in.email, reqs[g].in.age, fault) :
                    fault \in {"none", "exec"}} :
           /\ c.db.seq <= MaxSeq
           /\ rows' = c.db.rows
           /\ seq' = c.db.seq
           /\ issued' = IF c.err = "" THEN Append(issued, c.id) ELSE issued
           /\ reqs' = [reqs EXCEPT ![g] =
                  [@ EXCEPT !.pc = "done", !.id = c.id,
                            !.resp = IF c.err # ""
                                     THEN WriteJSON(500, GeneralError(c.err))
                                     ELSE WriteJSON(201, [id |-> c.id]),
                            !.added = c.db.rows \ rows,
                            !.lost = rows \ c.db.rows]]
    /\ UNCHANGED <<last, before, prev, deleted, main>>

\* UpdateStudentByID: stmt.Exec of the UPDATE.
ExecUpdate(g) ==
    /\ reqs[g].pc = "update"
    /\ rows' = UpdateStmt(DB, reqs[g].in.name, reqs[g].in.email, reqs[g].in.age,
                          reqs[g].id).rows
    /\ reqs' = [reqs EXCEPT ![g].pc = "reread"]
    /\ UNCHANGED <<seq, last, before, prev, issued, deleted, main>>

\* UpdateStudentByID: the re-read, and the 200 or 500 of Update.
ExecReread(g) ==
    /\ reqs[g].pc = "reread"
    /\ LET student == [ID |-> 0, Name |-> reqs[g].in.name, Email |-> reqs[g].in.email,
                       Age |-> reqs[g].in.age]
           u == UpdateReturn(DB, reqs[g].id, student, "none")
       IN  reqs' = [reqs EXCEPT ![g] =
              [@ EXCEPT !.pc = "done",
                        !.seen = {r \in rows : r.id = reqs[g].id},
                        !.resp = IF u.err # ""
                                 THEN WriteJSON(500, GeneralError(u.err))
                                 ELSE WriteJSON(200, EncodeStudent(u.student))]]
    /\ UNCHANGED <<rows, seq, last, before, prev, issued, deleted, main>>

\* DeleteStudentByID: stmt.Exec of the DELETE, and the 200 of Delete.
ExecDelete(g) ==
    /\ reqs[g].pc = "delete"
    /\ rows' = DeleteStudentByID(DB, reqs[g].id, "none").db.rows
    /\ deleted' = IF reqs[g].id \in {r.id : r \in rows}
                  THEN deleted \cup {reqs[g].id} ELSE deleted
    /\ reqs' = [reqs EXCEPT ![g] =
           [@ EXCEPT !.pc = "done", !.resp = WriteJSON(200, [status |-> "deleted"])]]
    /\ UNCHANGED <<seq, last, before, prev, issued, main>>

NextConc ==
    \E g \in Goroutines :
        \/ \E in \in ValidInputs : BeginNew(g, in)
        \/ \E id \in 1..MaxSeq, in \in ValidInputs : BeginUpdate(g, id, in)
        \/ \E id \in 1..MaxSeq : BeginDelete(g, id)
        \/ ExecInsert(g)
        \/ ExecUpdate(g)
        \/ ExecReread(g)
        \/ ExecDelete(g)

SpecConc == Init /\ [][NextConc]_vars

(***************************************************************************)
(* The process                                                             *)
(*                                                                         *)
(* func main runs statement by statement: MustLoad, sqlite.New, the        *)
(* HandleFuncs, go ListenAndServe, signal.Notify, <-done, server.Shutdown. *)
(* The goroutine of ListenAndServe, the connections it serves and the      *)
(* signals of the operating system run beside it.  `inflight` maps each    *)
(* connection to the pattern of the request it is serving ("" for none),   *)
(* `elapsed` counts the seconds since the shutdown context was made.       *)
(* `failed` records which start-up step failed, `late` that a request was  *)
(* accepted after Shutdown was called, `waited` that a request completed   *)
(* while Shutdown was waiting.                                             *)
(***************************************************************************)

\* context.WithTimeout(context.Background(), 5*time.Second), in seconds.
Grace == 5

Signals == {"SIGINT", "SIGTERM"}

Alive == main.end = ""

\* os.Exit(status), log.Fatal (status 1) and the return of func main (status 0).
Exit(m, end, status) == [m EXCEPT !.pc = "exited", !.end = end, !.status = status]

MainOnly == UNCHANGED <<rows, seq, last, before, prev, issued, deleted, reqs>>

\* cfg := config.MustLoad(): log.Fatal when no path is given, the file does
\* not exist or cleanenv cannot read it.
MustLoad(outcome) ==
    /\ Alive /\ main.pc = "MustLoad"
    /\ main' = IF outcome = "ok"
               THEN [main EXCEPT !.pc = "sqlite.New"]
               ELSE Exit([main EXCEPT !.failed = "config"], "log.Fatal: " \o outcome, 1)
    /\ MainOnly

\* As SqliteNew, with the error of sqlite.New not looked at.
SqliteNewErrIgnored(outcome) ==
    /\ Alive /\ main.pc = "sqlite.New"
    /\ main' = IF outcome = "ok"
               THEN [main EXCEPT !.pc = "HandleFunc", !.storage = "ready"]
               ELSE [main EXCEPT !.pc = "HandleFunc", !.failed = "storage"]
    /\ MainOnly

\* storage, err := sqlite.New(cfg); if err != nil { log.Error; os.Exit(1) }
SqliteNew(outcome) ==
    /\ Alive /\ main.pc = "sqlite.New"
    /\ main' = IF outcome = "ok"
               THEN [main EXCEPT !.pc = "HandleFunc", !.storage = "ready"]
               ELSE Exit([main EXCEPT !.failed = "storage"],
                         "failed to initialize storage", 1)
    /\ MainOnly

\* router := http.NewServeMux() and the five router.HandleFunc.
HandleFuncs ==
    /\ Alive /\ main.pc = "HandleFunc"
    /\ main' = [main EXCEPT !.pc = "go", !.routes = Routes]
    /\ MainOnly

\* go func() { ... server.ListenAndServe() ... }()
GoListenAndServe ==
    /\ Alive /\ main.pc = "go"
    /\ main' = [main EXCEPT !.pc = "signal.Notify", !.listener = "starting"]
    /\ MainOnly

\* The goroutine: server.ListenAndServe() listens, or returns an error that
\* is not http.ErrServerClosed and the goroutine calls os.Exit(1).
ListenAndServe(outcome) ==
    /\ Alive /\ main.listener = "starting"
    /\ main' = IF outcome = "ok"
               THEN [main EXCEPT !.listener = "listening"]
               ELSE Exit(main, "server encountered an error", 1)
    /\ MainOnly

\* signal.Notify(done, os.Interrupt, syscall.SIGTERM)
Notify ==
    /\ Alive /\ main.pc = "signal.Notify"
    /\ main' = [main EXCEPT !.pc = "<-done", !.notified = TRUE]
    /\ MainOnly

\* The operating system delivers a signal: into done (a channel of one
\* place; a signal that finds it full is dropped) once signal.Notify ran,
\* with the default action, which ends the process, before.
Signal(sig) ==
    /\ Alive
    /\ main' = IF ~main.notified THEN [main EXCEPT !.pc = "exited", !.end = "killed by " \o sig]
               ELSE IF main.done = <<>> THEN [main EXCEPT !.done = <<sig>>]
               ELSE main
    /\ MainOnly

\* <-done
ReceiveDone ==
    /\ Alive /\ main.pc = "<-done" /\ main.done # <<>>
    /\ main' = [main EXCEPT !.pc = "server.Shutdown", !.done = Tail(@)]
    /\ MainOnly

\* As Shutdown, with the listener left as it was.
ShutdownListenerLeftOpen ==
    /\ Alive /\ main.pc = "server.Shutdown"
    /\ main' = [main EXCEPT !.pc = "Shutdown waits", !.elapsed = 0]
    /\ MainOnly

\* ctx, cancel := context.WithTimeout(...); server.Shutdown(ctx) closes the
\* listener; a ListenAndServe that did not listen yet returns
\* http.ErrServerClosed.
Shutdown ==
    /\ Alive /\ main.pc = "server.Shutdown"
    /\ main' = [main EXCEPT !.pc = "Shutdown waits", !.elapsed = 0, !.listener = "closed"]
    /\ MainOnly

\* The listener accepts a connection and the router takes up its request.
Accept(c, route) ==
    /\ Alive /\ main.listener = "listening"
    /\ main.inflight[c] = "" /\ route \in main.routes
    /\ main' = [main EXCEPT !.inflight[c] = route,
                            !.late = @ \/ main.pc = "Shutdown waits"]
    /\ MainOnly

\* The handler of a request returned and its response is written.
Complete(c) ==
    /\ Alive /\ main.inflight[c] # ""
    /\ main' = [main EXCEPT !.inflight[c] = "",
                            !.waited = @ \/ main.pc = "Shutdown waits"]
    /\ MainOnly

\* A second of the shutdown context passes.
Tick ==
    /\ Alive /\ main.pc = "Shutdown waits" /\ main.elapsed < Grace
    /\ main' = [main EXCEPT !.elapsed = @ + 1]
    /\ MainOnly

\* server.Shutdown returns nil: no connection serves a request;
\* log.Info("server stopped gracefully") and func main returns.
ShutdownReturns ==
    /\ Alive /\ main.pc = "Shutdown waits"
    /\ \A c \in Conns : main.inflight[c] = ""
    /\ main' = Exit(main, "server stopped gracefully", 0)
    /\ MainOnly

\* server.Shutdown returns ctx.Err(): the deadline passed with a request
\* still served; log.Error and os.Exit(1).
ShutdownTimesOut ==
    /\ Alive /\ main.pc = "Shutdown waits"
    /\ main.elapsed = Grace
    /\ \E c \in Conns : main.inflight[c] # ""
    /\ main' = Exit(main, "failed to shutdown server gracefully", 1)
    /\ MainOnly

InitMain ==
    /\ rows = {}
    /\ seq = 0
    /\ last = [op |-> "none", path |-> "", body |-> EmptyBody,
               resp |-> [code |-> 0, data |-> [status |-> "none"]], calls |-> <<>>]
    /\ before = {}
    /\ prev = NoPrev
    /\ issued = <<>>
    /\ deleted = {}
    /\ reqs = [g \in Goroutines |-> Idle]
    /\ main = Started

NextMain ==
    \/ \E outcome \in {"ok", "config path is not set", "config file does not exist",
                       "cannot read config"} : MustLoad(outcome)
    \/ \E outcome \in {"ok", "open db", "create table"} : SqliteNew(outcome)
    \/ HandleFuncs
    \/ GoListenAndServe
    \/ \E outcome \in {"ok", "error"} : ListenAndServe(outcome)
    \/ Notify
    \/ \E sig \in Signals : Signal(sig)
    \/ ReceiveDone
    \/ Shutdown
    \/ \E c \in Conns, route \in Routes : Accept(c, route)
    \/ \E c \in Conns : Complete(c)
    \/ Tick
    \/ ShutdownReturns
    \/ ShutdownTimesOut

\* func main goes on from <-done to Shutdown, the clock of the context
\* runs, and Shutdown returns when it can.
SpecMain ==
    /\ InitMain /\ [][NextMain]_vars
    /\ WF_vars(ReceiveDone) /\ WF_vars(Shutdown) /\ WF_vars(Tick)
    /\ WF_vars(ShutdownReturns \/ ShutdownTimesOut)

(***************************************************************************)
(* Properties                                                              *)
(***************************************************************************)

Ids(table) == {r.id : r \in table}

\* The integer the last request's path names (0 when it names none).
LastId == ParseInt(last.path).val

\* The error envelope {status: "error", error: <message>}.
IsEnvelope(data) == DOMAIN data = {"status", "error"} /\ data.status = "error"

\* A JSON object that sets name and email to non-empty strings and age to a
\* non-zero number.
FieldsSet(body) ==
    /\ body.kind = "object"
    /\ "name"  \in body.has /\ body.name  # ""
    /\ "email" \in body.has /\ body.email # ""
    /\ "age"   \in body.has /\ body.age   # 0

\* C1: every successful Create answers an id strictly greater than the ids
\* answered by all earlier Creates, and one no row held when the request
\* arrived and no deleted row ever held.
C1_CreateIdsIncrease ==
    /\ \A i, j \in 1..Len(issued) : i < j => issued[i] < issued[j]
    /\ (last.op = "New" /\ last.resp.code = 201) =>
          /\ last.resp.data.id \notin Ids(before)
          /\ last.resp.data.id \notin deleted
          /\ last.resp.data.id = issued[Len(issued)]

\* A second Create succeeded after a row was deleted.
C1_Witness ==
    /\ last.op = "New" /\ last.resp.code = 201
    /\ Len(issued) = 2
    /\ deleted # {}

\* C2: a Get of the id that the Create just before it answered is answered
\* 200 with that id and the name, email and age of the Create's body.
C2_CreateThenGet ==
    (last.op = "GetByID" /\ prev.op = "New" /\ ParseInt(last.path).ok /\ LastId = prev.id) =>
        last.resp = [code |-> 200,
                     data |-> [id |-> prev.id, name |-> prev.name,
                               email |-> prev.email, age |-> prev.age]]

\* A Get of the second id, right after the Create that answered it.
C2_Witness ==
    /\ last.op = "GetByID" /\ prev.op = "New"
    /\ LastId = prev.id /\ prev.id = 2
    /\ last.resp.code = 200

\* C3: a successful Update leaves the addressed row holding its id and the
\* body's name, email and age, changes no other row, and answers that row;
\* a Get of the id right after it answers the body's values; and every
\* successful Get answers a row the store holds, without changing the store.
C3_UpdateReplaces ==
    /\ (last.op = "Update" /\ last.resp.code = 200) =>
          LET row == [id |-> LastId, name |-> last.body.name,
                      email |-> last.body.email, age |-> last.body.age]
          IN  /\ LastId \in Ids(before)
              /\ rows = {r \in before : r.id # LastId} \cup {row}
              /\ last.resp.data = row
    /\ (last.op = "GetByID" /\ prev.op = "Update" /\ ParseInt(last.path).ok
            /\ LastId = prev.id) =>
          last.resp = [code |-> 200,
                       data |-> [id |-> prev.id, name |-> prev.name,
                                 email |-> prev.email, age |-> prev.age]]
    /\ (last.op = "GetByID" /\ last.resp.code = 200) =>
          /\ last.resp.data \in rows
          /\ last.resp.data.id = LastId
          /\ rows = before

\* A Get right after a successful Update of the same id.
C3_Witness ==
    /\ last.op = "GetByID" /\ prev.op = "Update"
    /\ LastId = prev.id
    /\ last.resp.code = 200
    /\ last.resp.data.age = 36

\* C4: an Update with all fields set, addressed to an integer id that has no
\* row, leaves the table as it was and is answered 500 with the envelope.
C4_UpdateMissingId ==
    (/\ last.op = "Update"
     /\ ParseInt(last.path).ok
     /\ FieldsSet(last.body)
     /\ LastId \notin Ids(before)) =>
        /\ rows = before
        /\ last.resp.code = 500
        /\ IsEnvelope(last.resp.data)

\* Such an Update, answered with the error of the re-read.
C4_Witness ==
    /\ last.op = "Update"
    /\ FieldsSet(last.body)
    /\ LastId \notin Ids(before)
    /\ before # {}
    /\ last.resp.code = 500
    /\ last.resp.data.error = "no student found with id: " \o last.path

\* C5: a Delete of an integer id that has no row is answered 200 with
\* {status: deleted} and leaves the table as it was; and from every state,
\* Delete applied twice to an id leaves the same store and answers the same
\* as Delete applied once.
C5_DeleteIdempotent ==
    /\ (last.op = "Delete" /\ ParseInt(last.path).ok /\ LastId \notin Ids(before)) =>
          /\ last.resp = [code |-> 200, data |-> [status |-> "deleted"]]
          /\ rows = before
    /\ \A path \in PathIds :
          LET once  == Delete([rows |-> rows, seq |-> seq], path, "none")
              twice == Delete(once.db, path, "none")
          IN  twice.db = once.db /\ twice.resp = once.resp

\* A Delete of an id whose row an earlier Delete removed.
C5_Witness ==
    /\ last.op = "Delete"
    /\ LastId \in deleted
    /\ LastId \notin Ids(before)
    /\ last.resp.code = 200

\* C6: an id whose row a Delete removed has no row ever after, and a Get of
\* it is answered 500 with the envelope.
C6_DeleteIsPermanent ==
    /\ deleted \cap Ids(rows) = {}
    /\ (last.op = "GetByID" /\ ParseInt(last.path).ok /\ LastId \in deleted) =>
          /\ last.resp.code = 500
          /\ IsEnvelope(last.resp.data)

\* A Get of a deleted id while a row created later is in the table.
C6_Witness ==
    /\ last.op = "GetByID"
    /\ LastId \in deleted
    /\ \E r \in rows : r.id > LastId
    /\ last.resp.code = 500

\* C7: a Get of an integer id that has no row is answered 500 with the
\* envelope.
C7_GetMissingIs500 ==
    (last.op = "GetByID" /\ ParseInt(last.path).ok /\ LastId \notin Ids(before)) =>
        /\ last.resp.code = 500
        /\ last.resp.code # 404
        /\ IsEnvelope(last.resp.data)

\* A Get of an id that was never assigned, answered with the no-row error.
C7_Witness ==
    /\ last.op = "GetByID"
    /\ ParseInt(last.path).ok
    /\ LastId > seq
    /\ last.resp.code = 500
    /\ last.resp.data.error = "no student found with id: " \o last.path

\* C8: a Create, or an Update with an integer id, whose body is an object is
\* answered 400 without a storage call when name is empty, email is empty
\* or age is zero or absent, and reaches its storage call otherwise,
\* whatever the email looks like; and the two handlers answer 400 to the
\* same bodies, with the same message.
C8_SameValidation ==
    /\ (/\ last.op \in {"New", "Update"}
        /\ last.op = "Update" => ParseInt(last.path).ok
        /\ last.body.kind = "object") =>
          IF FieldsSet(last.body)
          THEN last.resp.code # 400 /\ Len(last.calls) = 1
          ELSE last.resp.code = 400 /\ last.calls = <<>> /\ IsEnvelope(last.resp.data)
    /\ \A body \in Bodies :
          LET db      == [rows |-> rows, seq |-> seq]
              created == New(db, body, "none")
              updated == Update(db, "1", body, "none")
          IN  /\ created.resp.code = 400 <=> updated.resp.code = 400
              /\ created.resp.code = 400 => created.resp = updated.resp

\* An Update whose email is no address is accepted.
C8_Witness ==
    /\ last.op = "Update"
    /\ last.body.email = "not-an-email"
    /\ last.resp.code = 200

\* C9: the rows of the table have pairwise distinct ids, and each has a
\* non-empty name and a non-empty email.
C9_RowsWellFormed ==
    /\ \A r, o \in rows : r.id = o.id => r = o
    /\ \A r \in rows : r.name # "" /\ r.email # ""

\* Two rows are in the table, one of them updated.
C9_Witness ==
    /\ Cardinality(rows) = 2
    /\ last.op = "Update" /\ last.resp.code = 200

\* C10: a Create, Update or Delete that is answered 400 or 500 leaves the
\* table as it was when the request arrived.
C10_ErrorLeavesStore ==
    (last.op \in {"New", "Update", "Delete"} /\ last.resp.code \in {400, 500}) =>
        rows = before

\* The path segment is the decimal numeral of an integer.
IsNumeral(path) == \E i \in 1..9 : Decimal[i] = path

\* The shape of a Student in JSON.
IsStudent(data) == DOMAIN data = {"id", "name", "email", "age"}

\* C11: a response is the error envelope exactly when its status is 400 or
\* 500; a 201 of Create is {id}, a 200 of Get or Update is a Student, a 200
\* of List is an array and a 200 of Delete is {status: deleted}.
C11_EnvelopeIffError ==
    last.op # "none" =>
        /\ last.resp.code \in {200, 201, 400, 500}
        /\ IsEnvelope(last.resp.data) <=> last.resp.code \in {400, 500}
        /\ last.resp.code \in {200, 201} =>
              /\ last.op = "New"     => last.resp.code = 201 /\ DOMAIN last.resp.data = {"id"}
              /\ last.op = "GetByID" => last.resp.code = 200 /\ IsStudent(last.resp.data)
              /\ last.op = "GetList" => last.resp.code = 200 /\ DOMAIN last.resp.data = {"array"}
              /\ last.op = "Update"  => last.resp.code = 200 /\ IsStudent(last.resp.data)
              /\ last.op = "Delete"  => last.resp.code = 200
                                        /\ last.resp.data = [status |-> "deleted"]

\* A storage error of Delete, answered 500 with the envelope.
C11_Witness ==
    /\ last.op = "Delete"
    /\ last.resp.code = 500
    /\ IsEnvelope(last.resp.data)

\* C12: a Get, Update or Delete whose path id is no integer, and a Create or
\* Update whose body is empty, malformed or lacks a required field, is
\* answered 400, calls no storage method and leaves the table as it was.
C12_InputErrorIs400 ==
    (\/ last.op \in {"GetByID", "Update", "Delete"} /\ ~IsNumeral(last.path)
     \/ last.op \in {"New", "Update"} /\ ~FieldsSet(last.body)) =>
        /\ last.resp.code = 400
        /\ last.calls = <<>>
        /\ rows = before

\* A Delete with a path id that is no integer, while the table holds a row.
C12_Witness ==
    /\ last.op = "Delete"
    /\ last.path = "abc"
    /\ last.resp.code = 400
    /\ rows # {}

\* The messages of the errors a storage method returns.
StorageErrors(method) ==
    {method \o ": " \o stmt \o ": " \o DriverErr :
        stmt \in {"prepare", "exec", "query", "scan", "scan row", "rows iteration"}}
    \cup (IF method = "GetStudentByID"
          THEN {"no student found with id: " \o Decimal[i] : i \in 1..9} ELSE {})

\* C13: a request calls at most one storage method, once, and it is the
\* method of its route; a 500 is answered after exactly one call that
\* returned an error, with that error's message.
C13_NoRetries ==
    /\ Len(last.calls) <= 1
    /\ last.resp.code = 500 =>
          /\ Len(last.calls) = 1
          /\ last.resp.data.error \in
                StorageErrors(last.calls[1]) \cup
                (IF last.op = "Update" THEN StorageErrors("GetStudentByID") ELSE {})
    /\ last.op = "New"     /\ last.calls # <<>> => last.calls = <<"CreateStudent">>
    /\ last.op = "GetByID" /\ last.calls # <<>> => last.calls = <<"GetStudentByID">>
    /\ last.op = "GetList" => last.calls = <<"GetStudents">>
    /\ last.op = "Update"  /\ last.calls # <<>> => last.calls = <<"UpdateStudentByID">>
    /\ last.op = "Delete"  /\ last.calls # <<>> => last.calls = <<"DeleteStudentByID">>

\* A List whose query failed.
C13_Witness ==
    /\ last.op = "GetList"
    /\ last.resp.code = 500
    /\ last.resp.data.error = "GetStudents: query: disk I/O error"
    /\ last.calls = <<"GetStudents">>

\* C16: a successful List is answered 200 with an array, and with the empty
\* array when the table is empty.
C16_ListIsArray ==
    (last.op = "GetList" /\ last.resp.code # 500) =>
        /\ last.resp.code = 200
        /\ DOMAIN last.resp.data = {"array"}
        /\ before = {} => last.resp.data.array = <<>>

\* A List of the table after its only row was deleted.
C16_Witness ==
    /\ last.op = "GetList"
    /\ last.resp.code = 200
    /\ rows = {}
    /\ deleted # {}

\* C17: a successful List answers the rows of the table, each once.
C17_ListIsAllRows ==
    (last.op = "GetList" /\ last.resp.code = 200) =>
        LET items == last.resp.data.array IN
        /\ {items[i] : i \in 1..Len(items)} = before
        /\ Len(items) = Cardinality(before)
        /\ \A i \in 1..Len(items) : items[i].id \notin deleted
        /\ rows = before

\* A List of two rows.
C17_Witness ==
    /\ last.op = "GetList"
    /\ last.resp.code = 200
    /\ Len(last.resp.data.array) = 2

\* The sentences for the fields of the body that are not set, in the order
\* Name, Email, Age.
Sentences(body) ==
    (IF body.name  = "" THEN <<"field Name is required">>  ELSE <<>>)
    \o (IF body.email = "" THEN <<"field Email is required">> ELSE <<>>)
    \o (IF body.age   = 0  THEN <<"field Age is required">>   ELSE <<>>)

\* C18: the message of a validation failure is the sentences of the failing
\* fields, in field order, joined by ", ".
C18_ValidationMessage ==
    (/\ last.op \in {"New", "Update"}
     /\ last.op = "Update" => IsNumeral(last.path)
     /\ last.body.kind = "object"
     /\ ~FieldsSet(last.body)) =>
        LET m == Sentences(last.body) IN
        /\ last.resp.code = 400
        /\ last.resp.data.error =
              IF Len(m) = 1 THEN m[1]
              ELSE IF Len(m) = 2 THEN m[1] \o ", " \o m[2]
              ELSE m[1] \o ", " \o m[2] \o ", " \o m[3]

\* A Create with an email only.
C18_Witness ==
    /\ last.op = "New"
    /\ last.resp.code = 400
    /\ last.resp.data.error = "field Name is required, field Age is required"

\* C14: the Student of a 200 of Update is the row the table held under the
\* id when the re-read ran, whatever the other request wrote or deleted in
\* between; when the table held no such row then, the answer is 500.
C14_UpdateAnswersStoredRow ==
    \A g \in Goroutines :
        (reqs[g].op = "Update" /\ reqs[g].pc = "done") =>
            /\ reqs[g].resp.code = 200 =>
                  /\ reqs[g].seen = {reqs[g].resp.data}
                  /\ reqs[g].resp.data.id = reqs[g].id
            /\ reqs[g].resp.code # 200 =>
                  /\ reqs[g].resp.code = 500
                  /\ reqs[g].seen = {}

\* An Update answered 200 with the name another Update wrote after it.
C14_Witness ==
    \E g \in Goroutines :
        /\ reqs[g].op = "Update" /\ reqs[g].pc = "done"
        /\ reqs[g].resp.code = 200
        /\ reqs[g].resp.data.name # reqs[g].in.name

\* C15: the ids answered by the Creates are pairwise distinct, and the
\* INSERT of each Create answered 201 put exactly one row into the table,
\* holding the id it answered and the request's name, email and age, and
\* took none out; a Create answered 500 put none in and took none out.
C15_ConcurrentCreates ==
    /\ \A i, j \in 1..Len(issued) : i # j => issued[i] # issued[j]
    /\ \A g \in Goroutines :
          (reqs[g].op = "New" /\ reqs[g].pc = "done") =>
              /\ reqs[g].lost = {}
              /\ reqs[g].resp.code \in {201, 500}
              /\ reqs[g].resp.code = 500 => reqs[g].added = {}
              /\ reqs[g].resp.code = 201 =>
                    /\ reqs[g].added =
                          {[id |-> reqs[g].resp.data.id, name |-> reqs[g].in.name,
                            email |-> reqs[g].in.email, age |-> reqs[g].in.age]}
                    /\ \E i \in 1..Len(issued) : issued[i] = reqs[g].resp.data.id

\* Two Creates in flight together, both answered, both rows in the table.
C15_Witness ==
    /\ reqs["g1"].op = "New" /\ reqs["g1"].pc = "done" /\ reqs["g1"].resp.code = 201
    /\ reqs["g2"].op = "New" /\ reqs["g2"].pc = "done" /\ reqs["g2"].resp.code = 201
    /\ reqs["g1"].in # reqs["g2"].in
    /\ reqs["g1"].added \cup reqs["g2"].added = rows
    /\ Cardinality(rows) = 2

\* C19: when MustLoad or sqlite.New failed the process has exited with a
\* status that is not 0, no route is registered and no listener was started;
\* and whenever the listener accepts or a request is being served, the
\* storage was initialised and the routes are registered.
C19_FatalStartup ==
    /\ main.failed # "" =>
          /\ main.pc = "exited" /\ main.status # 0 /\ main.status = 1
          /\ main.routes = {} /\ main.listener = "none"
          /\ \A c \in Conns : main.inflight[c] = ""
    /\ (main.listener # "none" \/ main.routes # {} \/ \E c \in Conns : main.inflight[c] # "") =>
          /\ main.storage = "ready"
          /\ main.failed = ""
    /\ (\E c \in Conns : main.inflight[c] # "") => main.routes = Routes

\* The process exited because sqlite.New failed.
C19_Witness ==
    /\ main.failed = "storage"
    /\ main.pc = "exited"
    /\ main.end = "failed to initialize storage"

\* What holds in every state of the shutdown (C20).
C20_ShutdownSafe ==
    /\ ~main.late
    /\ main.pc = "Shutdown waits" => main.listener = "closed"
    /\ main.end = "server stopped gracefully" =>
          /\ main.status = 0
          /\ main.elapsed <= Grace
          /\ \A c \in Conns : main.inflight[c] = ""
    /\ main.end = "failed to shutdown server gracefully" =>
          /\ main.status = 1
          /\ main.elapsed = Grace
          /\ \E c \in Conns : main.inflight[c] # ""
    /\ (main.pc = "exited" /\ main.listener = "closed") =>
          main.end \in {"server stopped gracefully", "failed to shutdown server gracefully"}

\* C20: a SIGINT or SIGTERM delivered into done makes func main call
\* Shutdown, and from that call on no request is accepted; the process then
\* ends, with
\* "server stopped gracefully" and status 0 only when no request is in
\* flight any more, within the 5 seconds, and with status 1 only when the 5
\* seconds have passed with a request still in flight.
C20_GracefulShutdown ==
    /\ []C20_ShutdownSafe
    /\ (main.done # <<>>) ~> (main.pc = "exited")

\* The process stopped gracefully after Shutdown waited for a request.
C20_Witness ==
    /\ main.end = "server stopped gracefully"
    /\ main.waited
    /\ main.elapsed > 0

\* The JSON object `body` without its "id" key.
StripId(body) ==
    Object(body.has \ {"id"}, 0, [name |-> body.name, email |-> body.email, age |-> body.age])

\* C21: in every state of the store, Create and Update of a body that
\* holds an "id" key do and answer what they do and answer for the same
\* body without the key; the row a Create of such a body added holds the
\* id answered, which no row held or holds besides; an Update of such a
\* body leaves the set of ids of the table as it was and every row under
\* another id than the path's (the body's id among them) as it was, and
\* answers the path's id.
C21_IdNotFromBody ==
    /\ \A body \in {b \in Bodies : "id" \in b.has} :
          /\ \A f \in CreateFaults : New(DB, body, f) = New(DB, StripId(body), f)
          /\ \A path \in PathIds, f \in UpdateFaults :
                Update(DB, path, body, f) = Update(DB, path, StripId(body), f)
    /\ (last.op = "New" /\ "id" \in last.body.has /\ last.resp.code = 201) =>
          /\ before \subseteq rows
          /\ rows \ before = {[id |-> last.resp.data.id, name |-> last.body.name,
                               email |-> last.body.email, age |-> last.body.age]}
          /\ last.resp.data.id \notin Ids(before)
          /\ last.resp.data.id = issued[Len(issued)]
    /\ (last.op = "Update" /\ "id" \in last.body.has /\ IsNumeral(last.path)) =>
          /\ Ids(rows) = Ids(before)
          /\ \A r \in before : r.id # LastId => r \in rows
          /\ last.resp.code = 200 => last.resp.data.id = LastId

\* An Update answered 200 whose body names the id of another row.
C21_Witness ==
    /\ last.op = "Update" /\ last.resp.code = 200
    /\ "id" \in last.body.has
    /\ last.body.id # LastId
    /\ last.body.id \in Ids(before)
    /\ rows # before

\* C22: Get and List leave the store as it is, whatever statement fails;
\* after an Update or a Delete of id i the table holds under every other id
\* the rows it held before, and after one of a path that is no integer it
\* holds what it held.
C22_Frame ==
    /\ \A path \in PathIds, f \in GetFaults : GetByID(DB, path, f).db = DB
    /\ \A f \in ListFaults : GetList(DB, f).db = DB
    /\ last.op \in {"GetByID", "GetList"} => rows = before
    /\ last.op \in {"Update", "Delete"} =>
          IF IsNumeral(last.path)
          THEN {r \in rows : r.id # LastId} = {r \in before : r.id # LastId}
          ELSE rows = before

\* A Delete removed the row of its id and another row is still held.
C22_Witness ==
    /\ last.op = "Delete" /\ last.resp.code = 200
    /\ LastId \in Ids(before)
    /\ LastId \notin Ids(rows)
    /\ rows # {}

\* C23: Update answers the first check that fails and nothing else: a path
\* that is no integer gives 400 "invalid id: must be an integer" whatever
\* the body; else a body of no bytes gives 400 "request body is empty";
\* else a body that is no JSON of the Student shape gives 400 with the
\* decoder's error; else a body with a required field missing or zero gives
\* 400 with the validation message; only else is UpdateStudentByID called,
\* once.  A request answered 400 made no storage call and changed no row.
C23_UpdateCheckOrder ==
    last.op = "Update" =>
        /\ IF ~IsNumeral(last.path) THEN
               last.resp = [code |-> 400,
                            data |-> [status |-> "error",
                                      error |-> "invalid id: must be an integer"]]
           ELSE IF last.body.kind = "empty" THEN
               last.resp = [code |-> 400,
                            data |-> [status |-> "error", error |-> "request body is empty"]]
           ELSE IF last.body.kind = "malformed" THEN
               /\ last.resp.code = 400
               /\ IsEnvelope(last.resp.data)
               /\ last.resp.data.error \notin {"invalid id: must be an integer",
                                               "request body is empty"}
           ELSE IF ~FieldsSet(last.body) THEN
               /\ last.resp.code = 400
               /\ IsEnvelope(last.resp.data)
               /\ last.resp.data.error = Join(Sentences(last.body), ", ")
               /\ last.resp.data.error \notin {"", "invalid id: must be an integer",
                                               "request body is empty"}
           ELSE
               /\ last.resp.code \in {200, 500}
               /\ last.calls = <<"UpdateStudentByID">>
        /\ last.resp.code = 400 => (last.calls = <<>> /\ rows = before)

\* An Update with a path that is no integer and a body that fails
\* validation, answered for the path.
C23_Witness ==
    /\ last.op = "Update"
    /\ ~IsNumeral(last.path)
    /\ last.body.kind = "object" /\ ~FieldsSet(last.body)
    /\ last.resp.code = 400
    /\ last.resp.data.error = "invalid id: must be an integer"

====
